---- MODULE Spec2Model ----
(***************************************************************************)
(* GullyLink realtime core (src/gullylink/main.py): the ConnectionManager  *)
(* (registry + broadcast loop), the per-connection websocket handler and   *)
(* the place_order HTTP operation, as asyncio tasks that interleave at     *)
(* every await.                                                            *)
(*                                                                         *)
(* Coordinates are floats in the source; they are carried here as integers *)
(* (value * 10^4), which keeps "exactly the given value" checkable.        *)
(***************************************************************************)
EXTENDS Integers, Sequences, FiniteSets, TLC

\* ------------------------------------------------------------------ bounds
\* Number of websocket clients that may connect during a run.
NumConns == 3
\* Number of POST /api/order requests during a run.
NumReqs == 2
\* Total number of inbound websocket messages received during a run.
MaxMsgs == 2
\* random.randint(1000, 9999) draws from OrderIdMin .. OrderIdMin+NumIds-1
\* here: a narrower range than the source's, with the same lower end.
NumIds == 2
\* Total number of inbound messages and order requests during a run.
MaxOps == 2
\* Number of clients that go away on their own during a run.
MaxCloses == 1
\* Longest registry the stand-alone registry specification starts from.
MaxRegLen == 3

OrderIdMin == 1000

Conns == 1 .. NumConns
Reqs == 1 .. NumReqs
OrderIds == OrderIdMin .. (OrderIdMin + NumIds - 1)
Tasks == ({"ws"} \X Conns) \cup ({"http"} \X Reqs)

\* ----------------------------------------------------------------- helpers
SeqToSet(s) == {s[i] : i \in 1 .. Len(s)}

NoDup(s) == \A i, j \in 1 .. Len(s) : i # j => s[i] # s[j]

Count(s, x) == Cardinality({i \in 1 .. Len(s) : s[i] = x})

\* Index of the first occurrence of x in s, 0 when absent.
IndexOf(s, x) ==
    IF \E i \in 1 .. Len(s) : s[i] = x
    THEN CHOOSE i \in 1 .. Len(s) : s[i] = x /\ \A j \in 1 .. (i - 1) : s[j] # x
    ELSE 0

RemoveAt(s, i) == SubSeq(s, 1, i - 1) \o SubSeq(s, i + 1, Len(s))

\* -------------------------------------------------------------- data layer
VendorRow(id, name, lat, lng, category) ==
    [id |-> id, name |-> name, lat |-> lat, lng |-> lng,
     category |-> category, orders |-> <<>>]

\* VENDORS as the module is loaded.
InitialVendors ==
    [v \in {"v1", "v2", "v3", "v4", "v5"} |->
        CASE v = "v1" -> VendorRow("v1", "Chai Point", 286139, 772090, "Beverages")
          [] v = "v2" -> VendorRow("v2", "Burger Singh", 286129, 772100, "Fast Food")
          [] v = "v3" -> VendorRow("v3", "Sharma Sweets", 286145, 772080, "Sweets")
          [] v = "v4" -> VendorRow("v4", "Pizza Hut Mobile", 286150, 772110, "Italian")
          [] v = "v5" -> VendorRow("v5", "Gully Momos", 286110, 772070, "Street Food")]

\* ------------------------------------------------------------------ inputs
\* Inbound websocket payloads the clients may send (receive_json results).
LocKnown == [type |-> "location_update", id |-> "v1", lat |-> 286200, lng |-> 772100]
LocUnknown == [type |-> "location_update", id |-> "v9", lat |-> 286200, lng |-> 772100]
LocNoLng == [type |-> "location_update", id |-> "v1", lat |-> 286300]
LocUnknownNoLat == [type |-> "location_update", id |-> "v9"]
LocNoId == [type |-> "location_update", lat |-> 286200, lng |-> 772100]
OrderUpdate == [type |-> "order_update", order_id |-> 1000, status |-> "Accepted"]
OtherType == [type |-> "ping"]
NoType == [id |-> "v1"]

Inbound ==
    {LocKnown, LocUnknown, LocNoLng, LocUnknownNoLat, LocNoId, OrderUpdate,
     OtherType, NoType}

\* Bodies of POST /api/order (the Order model).
OrderInputs ==
    [vendor_id : {"v1", "v9"}, item : {"Masala Chai"},
     customer_lat : {286000}, customer_lng : {772000}]

\* Value of the handler's local `data` before the first receive.
NoData == [unset |-> TRUE]

\* Exceptions a failed send_json raises, by framework version.
SendErrors == {"WebSocketDisconnect", "RuntimeError"}

VARIABLES
    VENDORS,             \* the vendor table
    active_connections,  \* manager.active_connections
    transport,           \* per connection: "pending", "open", "closed"
    hstate,              \* per handler: "Connecting", "Open", "Broadcasting", "Closed"
    hexit,               \* per handler: the exception that ended it, or "none"
    data,                \* per handler: the local `data`
    req,                 \* per HTTP request: [state, order, result, order_id]
    pass,                \* per task: the position of its broadcast loop
    passLog,             \* history: one record per call of broadcast
    received,            \* per connection: the <<pass, message>> pairs sent to it
    recvLog,             \* history: the <<connection, message>> pairs received
    regOp,               \* the last registry operation applied and its outcome
    closedByClient       \* per connection: the client closed the transport

vars == <<VENDORS, active_connections, transport, hstate, hexit, data, req,
          pass, passLog, received, recvLog, regOp, closedByClient>>

\* Inbound messages received and order requests made so far.
OpsDone == Len(recvLog) + Cardinality({r \in Reqs : req[r].state # "idle"})

\* Clients that went away on their own: at the handshake, or later without
\* their handler having ended first.
Gone == {c \in Conns : hexit[c] = "AcceptError" \/ closedByClient[c]}

NoPass == [id |-> 0, idx |-> 0, cur |-> 0]
NoOp == [op |-> "none", arg |-> 0, before |-> <<>>, error |-> "none"]
NoReq == [state |-> "idle", vendor_id |-> "", result |-> "", order_id |-> 0]

\* ---------------------------------------------------- ConnectionManager
\* connect(): the append after the accept.
connect(list, ws) == Append(list, ws)

\* disconnect() as list.pop(): drops the last element whatever ws is.
disconnect_popLast(list, ws) ==
    IF list = <<>>
    THEN [list |-> list, error |-> "ValueError"]
    ELSE [list |-> SubSeq(list, 1, Len(list) - 1), error |-> "none"]

\* disconnect() as list.pop(0): drops the oldest element whatever ws is.
disconnect_popFirst(list, ws) ==
    IF list = <<>>
    THEN [list |-> list, error |-> "ValueError"]
    ELSE [list |-> SubSeq(list, 2, Len(list)), error |-> "none"]

\* disconnect(): list.remove(ws) drops the first occurrence and raises
\* ValueError when there is none.
disconnect(list, ws) ==
    IF IndexOf(list, ws) = 0
    THEN [list |-> list, error |-> "ValueError"]
    ELSE [list |-> RemoveAt(list, IndexOf(list, ws)), error |-> "none"]

\* The list iterator of `for connection in self.active_connections`: the
\* element at position idx of the list as it is now, 0 when exhausted.
NextTarget(list, idx) == IF idx <= Len(list) THEN list[idx] ELSE 0

\* ------------------------------------------------------ websocket handler
HasKey(d, k) == k \in DOMAIN d

Raised(V) == [raise |-> "KeyError", vendors |-> V, bcast |-> FALSE]

\* The receive loop body with the broadcast of a location_update moved out
\* of `if vendor_id in VENDORS`.
Dispatch_broadcastOutsideIf(d, V) ==
    IF ~HasKey(d, "type") THEN Raised(V)
    ELSE IF d.type = "location_update" THEN
        IF ~HasKey(d, "id") THEN Raised(V)
        ELSE IF d.id \in DOMAIN V THEN
            IF ~HasKey(d, "lat") THEN Raised(V)
            ELSE IF ~HasKey(d, "lng") THEN Raised([V EXCEPT ![d.id].lat = d.lat])
            ELSE [raise |-> "none",
                  vendors |-> [V EXCEPT ![d.id].lat = d.lat, ![d.id].lng = d.lng],
                  bcast |-> TRUE]
        ELSE [raise |-> "none", vendors |-> V, bcast |-> TRUE]
    ELSE IF d.type = "order_update" THEN [raise |-> "none", vendors |-> V, bcast |-> TRUE]
    ELSE [raise |-> "none", vendors |-> V, bcast |-> FALSE]

\* The receive loop body with the vendor looked up by setdefault: an
\* unknown id gets a fresh row holding the coordinates.
Dispatch_createsVendor(d, V) ==
    IF ~HasKey(d, "type") THEN Raised(V)
    ELSE IF d.type = "location_update" THEN
        IF ~HasKey(d, "id") THEN Raised(V)
        ELSE IF d.id \in DOMAIN V THEN
            IF ~HasKey(d, "lat") THEN Raised(V)
            ELSE IF ~HasKey(d, "lng") THEN Raised([V EXCEPT ![d.id].lat = d.lat])
            ELSE [raise |-> "none",
                  vendors |-> [V EXCEPT ![d.id].lat = d.lat, ![d.id].lng = d.lng],
                  bcast |-> TRUE]
        ELSE IF HasKey(d, "lat") /\ HasKey(d, "lng")
        THEN [raise |-> "none",
              vendors |-> [v \in (DOMAIN V) \cup {d.id} |->
                            IF v \in DOMAIN V THEN V[v]
                            ELSE VendorRow(d.id, "", d.lat, d.lng, "")],
              bcast |-> FALSE]
        ELSE Raised(V)
    ELSE IF d.type = "order_update" THEN [raise |-> "none", vendors |-> V, bcast |-> TRUE]
    ELSE [raise |-> "none", vendors |-> V, bcast |-> FALSE]

\* The receive loop body reading the discriminator with data.get('type'):
\* a payload without `type` matches no branch and raises nothing.
Dispatch_getType(d, V) ==
    IF ~HasKey(d, "type") THEN [raise |-> "none", vendors |-> V, bcast |-> FALSE]
    ELSE IF d.type = "location_update" THEN
        IF ~HasKey(d, "id") THEN Raised(V)
        ELSE IF d.id \in DOMAIN V THEN
            IF ~HasKey(d, "lat") THEN Raised(V)
            ELSE IF ~HasKey(d, "lng") THEN Raised([V EXCEPT ![d.id].lat = d.lat])
            ELSE [raise |-> "none",
                  vendors |-> [V EXCEPT ![d.id].lat = d.lat, ![d.id].lng = d.lng],
                  bcast |-> TRUE]
        ELSE [raise |-> "none", vendors |-> V, bcast |-> FALSE]
    ELSE IF d.type = "order_update" THEN [raise |-> "none", vendors |-> V, bcast |-> TRUE]
    ELSE [raise |-> "none", vendors |-> V, bcast |-> FALSE]

\* The receive loop body with an order_update applied to the stored order
\* it names before it is broadcast.
Dispatch_appliesOrderUpdate(d, V) ==
    IF ~HasKey(d, "type") THEN Raised(V)
    ELSE IF d.type = "location_update" THEN
        IF ~HasKey(d, "id") THEN Raised(V)
        ELSE IF d.id \in DOMAIN V THEN
            IF ~HasKey(d, "lat") THEN Raised(V)
            ELSE IF ~HasKey(d, "lng") THEN Raised([V EXCEPT ![d.id].lat = d.lat])
            ELSE [raise |-> "none",
                  vendors |-> [V EXCEPT ![d.id].lat = d.lat, ![d.id].lng = d.lng],
                  bcast |-> TRUE]
        ELSE [raise |-> "none", vendors |-> V, bcast |-> FALSE]
    ELSE IF d.type = "order_update"
    THEN [raise |-> "none",
          vendors |-> [v \in DOMAIN V |->
                        [V[v] EXCEPT !.orders =
                            [i \in 1 .. Len(V[v].orders) |->
                                IF V[v].orders[i].id = d.order_id
                                THEN [V[v].orders[i] EXCEPT !.status = d.status]
                                ELSE V[v].orders[i]]]],
          bcast |-> TRUE]
    ELSE [raise |-> "none", vendors |-> V, bcast |-> FALSE]

\* The receive loop body with a closing `else: raise ValueError`.
Dispatch_elseRaises(d, V) ==
    IF ~HasKey(d, "type") THEN Raised(V)
    ELSE IF d.type = "location_update" THEN
        IF ~HasKey(d, "id") THEN Raised(V)
        ELSE IF d.id \in DOMAIN V THEN
            IF ~HasKey(d, "lat") THEN Raised(V)
            ELSE IF ~HasKey(d, "lng") THEN Raised([V EXCEPT ![d.id].lat = d.lat])
            ELSE [raise |-> "none",
                  vendors |-> [V EXCEPT ![d.id].lat = d.lat, ![d.id].lng = d.lng],
                  bcast |-> TRUE]
        ELSE [raise |-> "none", vendors |-> V, bcast |-> FALSE]
    ELSE IF d.type = "order_update" THEN [raise |-> "none", vendors |-> V, bcast |-> TRUE]
    ELSE [raise |-> "ValueError", vendors |-> V, bcast |-> FALSE]

\* The body of the receive loop for one payload d, up to the call of
\* broadcast: the exception it raises, the vendor table it leaves, and
\* whether it calls manager.broadcast(d).
Dispatch(d, V) ==
    IF ~HasKey(d, "type") THEN Raised(V)
    ELSE IF d.type = "location_update" THEN
        IF ~HasKey(d, "id") THEN Raised(V)
        ELSE IF d.id \in DOMAIN V THEN
            IF ~HasKey(d, "lat") THEN Raised(V)
            ELSE IF ~HasKey(d, "lng") THEN Raised([V EXCEPT ![d.id].lat = d.lat])
            ELSE [raise |-> "none",
                  vendors |-> [V EXCEPT ![d.id].lat = d.lat, ![d.id].lng = d.lng],
                  bcast |-> TRUE]
        ELSE [raise |-> "none", vendors |-> V, bcast |-> FALSE]
    ELSE IF d.type = "order_update" THEN [raise |-> "none", vendors |-> V, bcast |-> TRUE]
    ELSE [raise |-> "none", vendors |-> V, bcast |-> FALSE]

\* ------------------------------------------------------------ place_order
order_data(o, id) ==
    [id |-> id, item |-> o.item, status |-> "Pending",
     lat |-> o.customer_lat, lng |-> o.customer_lng]

\* place_order without the `in VENDORS` test: the message is built and
\* broadcast for any vendor id.
place_order_noCheck(o, id, V) ==
    [found |-> TRUE,
     vendors |-> IF o.vendor_id \in DOMAIN V
                 THEN [V EXCEPT ![o.vendor_id].orders = Append(@, order_data(o, id))]
                 ELSE V,
     msg |-> [type |-> "new_order", vendor_id |-> o.vendor_id,
              order |-> order_data(o, id)]]

\* place_order up to the call of broadcast, for the id random.randint drew.
place_order(o, id, V) ==
    IF o.vendor_id \in DOMAIN V
    THEN [found |-> TRUE,
          vendors |-> [V EXCEPT ![o.vendor_id].orders = Append(@, order_data(o, id))],
          msg |-> [type |-> "new_order", vendor_id |-> o.vendor_id,
                   order |-> order_data(o, id)]]
    ELSE [found |-> FALSE, vendors |-> V, msg |-> NoData]

\* -------------------------------------------------------------- broadcast
\* The record a call of broadcast(msg) by task t opens in the history.
LogEntry(t, msg, reg) ==
    [task |-> t, msg |-> msg, startReg |-> reg, delivered |-> <<>>, failed |-> 0,
     status |-> IF NextTarget(reg, 1) = 0 THEN "completed" ELSE "running",
     endReg |-> reg]

\* Entering the for loop: the first element is fetched and its send awaited.
EnterLoop(t, msg) ==
    /\ passLog' = Append(passLog, LogEntry(t, msg, active_connections))
    /\ pass' = [pass EXCEPT ![t] =
                    IF NextTarget(active_connections, 1) = 0 THEN NoPass
                    ELSE [id |-> Len(passLog) + 1, idx |-> 2,
                          cur |-> NextTarget(active_connections, 1)]]

\* The awaited send_json to pass[t].cur returns; the loop fetches the next
\* element of the list as it is now.
SendReturns(t) ==
    LET p == pass[t]
        nxt == NextTarget(active_connections, p.idx)
    IN  /\ received' = [received EXCEPT ![p.cur] = Append(@, <<p.id, passLog[p.id].msg>>)]
        /\ pass' = [pass EXCEPT ![t] =
                        IF nxt = 0 THEN NoPass
                        ELSE [id |-> p.id, idx |-> p.idx + 1, cur |-> nxt]]
        /\ passLog' = [passLog EXCEPT ![p.id] =
                        [@ EXCEPT !.delivered = Append(@, p.cur),
                                  !.status = IF nxt = 0 THEN "completed" ELSE "running",
                                  !.endReg = active_connections]]

\* The awaited send_json to pass[t].cur raises: the exception leaves the
\* loop and broadcast. reg is the registry the caller leaves behind.
SendRaises(t, reg) ==
    LET p == pass[t]
    IN  /\ pass' = [pass EXCEPT ![t] = NoPass]
        /\ passLog' = [passLog EXCEPT ![p.id] =
                        [@ EXCEPT !.failed = p.cur, !.status = "aborted",
                                  !.endReg = reg]]

\* ----------------------------------------------------------------- actions
\* Everything but the registry, as the module is loaded.
InitRest ==
    /\ VENDORS = InitialVendors
    /\ transport = [c \in Conns |-> "pending"]
    /\ hstate = [c \in Conns |-> "Connecting"]
    /\ hexit = [c \in Conns |-> "none"]
    /\ data = [c \in Conns |-> NoData]
    /\ req = [r \in Reqs |-> NoReq]
    /\ pass = [t \in Tasks |-> NoPass]
    /\ passLog = <<>>
    /\ received = [c \in Conns |-> <<>>]
    /\ recvLog = <<>>
    /\ regOp = NoOp
    /\ closedByClient = [c \in Conns |-> FALSE]

Init ==
    /\ active_connections = <<>>
    /\ InitRest

\* Connections are numbered in the order their handshakes end.
Connect(c) ==
    /\ hstate[c] = "Connecting"
    /\ \A b \in Conns : b < c => hstate[b] # "Connecting"
    /\ transport' = [transport EXCEPT ![c] = "open"]
    /\ active_connections' = connect(active_connections, c)
    /\ regOp' = [op |-> "connect", arg |-> c, before |-> active_connections,
                 error |-> "none"]
    /\ hstate' = [hstate EXCEPT ![c] = "Open"]
    /\ UNCHANGED <<closedByClient, VENDORS, hexit, data, req, pass, passLog, received, recvLog>>

\* websocket.accept() raises: the handler ends before the try block.
AcceptFails(c) ==
    /\ hstate[c] = "Connecting"
    /\ \A b \in Conns : b < c => hstate[b] # "Connecting"
    /\ Cardinality(Gone) < MaxCloses
    /\ transport' = [transport EXCEPT ![c] = "closed"]
    /\ hstate' = [hstate EXCEPT ![c] = "Closed"]
    /\ hexit' = [hexit EXCEPT ![c] = "AcceptError"]
    /\ UNCHANGED <<VENDORS, active_connections, data, req, pass, passLog,
                   received, recvLog, regOp, closedByClient>>

\* The client goes away; its handler learns of it at its next receive or send.
ClientCloses(c) ==
    /\ transport[c] = "open"
    /\ Cardinality(Gone) < MaxCloses
    /\ transport' = [transport EXCEPT ![c] = "closed"]
    /\ closedByClient' = [closedByClient EXCEPT ![c] = TRUE]
    /\ UNCHANGED <<VENDORS, active_connections, hstate, hexit, data, req, pass,
                   passLog, received, recvLog, regOp>>

\* The except clause with a second manager.disconnect(websocket), as when a
\* finally block repeats it.
Except_disconnectTwice(c) ==
    LET d1 == disconnect(active_connections, c)
        d2 == disconnect(d1.list, c)
    IN  /\ active_connections' = d2.list
        /\ regOp' = [op |-> "disconnect", arg |-> c, before |-> d1.list,
                     error |-> d2.error]
        /\ hstate' = [hstate EXCEPT ![c] = "Closed"]
        /\ hexit' = [hexit EXCEPT ![c] =
                        IF d2.error = "none" THEN "WebSocketDisconnect" ELSE d2.error]
        /\ transport' = [transport EXCEPT ![c] = "closed"]

\* except WebSocketDisconnect: manager.disconnect(websocket), for handler c.
Except(c) ==
    LET d == disconnect(active_connections, c)
    IN  /\ active_connections' = d.list
        /\ regOp' = [op |-> "disconnect", arg |-> c, before |-> active_connections,
                     error |-> d.error]
        /\ hstate' = [hstate EXCEPT ![c] = "Closed"]
        /\ hexit' = [hexit EXCEPT ![c] =
                        IF d.error = "none" THEN "WebSocketDisconnect" ELSE d.error]
        /\ transport' = [transport EXCEPT ![c] = "closed"]

\* An exception other than WebSocketDisconnect leaves the handler.
Uncaught(c, e) ==
    /\ hstate' = [hstate EXCEPT ![c] = "Closed"]
    /\ hexit' = [hexit EXCEPT ![c] = e]
    /\ transport' = [transport EXCEPT ![c] = "closed"]
    /\ UNCHANGED <<active_connections, regOp>>

\* The handler reading its socket from a task of its own, so that
\* receive_json also returns while a broadcast of the handler is awaited.
AwaitingReceive_whileBroadcasting(c) == hstate[c] \in {"Open", "Broadcasting"}

\* Handler c is suspended in `await websocket.receive_json()`: the loop
\* comes back to it only after the awaited broadcast has returned.
AwaitingReceive(c) == hstate[c] = "Open"

\* receive_json raises WebSocketDisconnect.
ReceiveDisconnect(c) ==
    /\ AwaitingReceive(c)
    /\ transport[c] = "closed"
    /\ Except(c)
    /\ UNCHANGED <<closedByClient, VENDORS, data, req, pass, passLog, received, recvLog>>

\* receive_json returns payload m; the loop body runs up to its next await.
ReceiveMessage(c, m) ==
    /\ AwaitingReceive(c)
    /\ transport[c] = "open"
    /\ Len(recvLog) < MaxMsgs
    /\ OpsDone < MaxOps
    /\ data' = [data EXCEPT ![c] = m]
    /\ recvLog' = Append(recvLog, <<c, m>>)
    /\ VENDORS' = Dispatch(m, VENDORS).vendors
    /\ IF Dispatch(m, VENDORS).raise # "none"
       THEN /\ Uncaught(c, Dispatch(m, VENDORS).raise)
            /\ UNCHANGED <<pass, passLog>>
       ELSE IF Dispatch(m, VENDORS).bcast
       THEN /\ EnterLoop(<<"ws", c>>, m)
            /\ hstate' = [hstate EXCEPT ![c] =
                            IF NextTarget(active_connections, 1) = 0
                            THEN "Open" ELSE "Broadcasting"]
            /\ UNCHANGED <<hexit, transport, active_connections, regOp>>
       ELSE UNCHANGED <<hstate, hexit, transport, active_connections, regOp,
                        pass, passLog>>
    /\ UNCHANGED <<closedByClient, req, received>>

\* A send of handler c's broadcast returns.
HandlerSendReturns(c) ==
    /\ hstate[c] = "Broadcasting"
    /\ transport[pass[<<"ws", c>>].cur] = "open"
    /\ SendReturns(<<"ws", c>>)
    /\ hstate' = [hstate EXCEPT ![c] =
                    IF NextTarget(active_connections, pass[<<"ws", c>>].idx) = 0
                    THEN "Open" ELSE "Broadcasting"]
    /\ UNCHANGED <<closedByClient, VENDORS, active_connections, transport, hexit, data, req,
                   recvLog, regOp>>

\* A send of handler c's broadcast raises e.
HandlerSendRaises(c, e) ==
    /\ hstate[c] = "Broadcasting"
    /\ transport[pass[<<"ws", c>>].cur] = "closed"
    /\ IF e = "WebSocketDisconnect" THEN Except(c) ELSE Uncaught(c, e)
    /\ SendRaises(<<"ws", c>>, active_connections')
    /\ UNCHANGED <<closedByClient, VENDORS, data, req, received, recvLog>>

\* POST /api/order with body o; requests are numbered in arrival order.
PlaceOrder(r, o, id) ==
    /\ req[r].state = "idle"
    /\ \A q \in Reqs : q < r => req[q].state # "idle"
    /\ OpsDone < MaxOps
    /\ VENDORS' = place_order(o, id, VENDORS).vendors
    /\ IF place_order(o, id, VENDORS).found
       THEN /\ EnterLoop(<<"http", r>>, place_order(o, id, VENDORS).msg)
            /\ req' = [req EXCEPT ![r] =
                        IF NextTarget(active_connections, 1) = 0
                        THEN [state |-> "done", vendor_id |-> o.vendor_id,
                              result |-> "Order Placed", order_id |-> id]
                        ELSE [state |-> "broadcasting", vendor_id |-> o.vendor_id,
                              result |-> "", order_id |-> id]]
       ELSE /\ req' = [req EXCEPT ![r] =
                        [state |-> "done", vendor_id |-> o.vendor_id,
                         result |-> "Vendor not found", order_id |-> 0]]
            /\ UNCHANGED <<pass, passLog>>
    /\ UNCHANGED <<closedByClient, active_connections, transport, hstate, hexit, data, received,
                   recvLog, regOp>>

\* A send of request r's broadcast returns.
RequestSendReturns(r) ==
    /\ req[r].state = "broadcasting"
    /\ transport[pass[<<"http", r>>].cur] = "open"
    /\ SendReturns(<<"http", r>>)
    /\ req' = [req EXCEPT ![r] =
                IF NextTarget(active_connections, pass[<<"http", r>>].idx) = 0
                THEN [@ EXCEPT !.state = "done", !.result = "Order Placed"]
                ELSE @]
    /\ UNCHANGED <<closedByClient, VENDORS, active_connections, transport, hstate, hexit, data,
                   recvLog, regOp>>

\* A send of request r's broadcast raises: the request ends in a 500.
RequestSendRaises(r, e) ==
    /\ req[r].state = "broadcasting"
    /\ transport[pass[<<"http", r>>].cur] = "closed"
    /\ SendRaises(<<"http", r>>, active_connections)
    /\ req' = [req EXCEPT ![r] =
                [@ EXCEPT !.state = "done", !.result = "Internal Server Error"]]
    /\ UNCHANGED <<closedByClient, VENDORS, active_connections, transport, hstate, hexit, data,
                   received, recvLog, regOp>>

Next ==
    \/ \E c \in Conns : Connect(c)
    \/ \E c \in Conns : AcceptFails(c)
    \/ \E c \in Conns : ClientCloses(c)
    \/ \E c \in Conns : ReceiveDisconnect(c)
    \/ \E c \in Conns, m \in Inbound : ReceiveMessage(c, m)
    \/ \E c \in Conns : HandlerSendReturns(c)
    \/ \E c \in Conns, e \in SendErrors : HandlerSendRaises(c, e)
    \/ \E r \in Reqs, o \in OrderInputs, id \in OrderIds : PlaceOrder(r, o, id)
    \/ \E r \in Reqs : RequestSendReturns(r)
    \/ \E r \in Reqs, e \in SendErrors : RequestSendRaises(r, e)

Spec == Init /\ [][Next]_vars

\* ------------------------------------------- the registry on its own
\* connect and disconnect applied to any registry the handlers can build
\* (no socket twice) and any socket: the clients and one that never
\* connected.
RegSockets == 1 .. (NumConns + 1)

RegStates ==
    {l \in UNION {[1 .. n -> RegSockets] : n \in 0 .. MaxRegLen} : NoDup(l)}

RegInit ==
    /\ active_connections \in RegStates
    /\ InitRest

\* The caller adds a socket once, after its handshake.
RegConnect(ws) ==
    /\ ws \notin SeqToSet(active_connections)
    /\ Len(active_connections) < MaxRegLen
    /\ active_connections' = connect(active_connections, ws)
    /\ regOp' = [op |-> "connect", arg |-> ws, before |-> active_connections,
                 error |-> "none"]
    /\ UNCHANGED <<VENDORS, transport, hstate, hexit, data, req, pass, passLog,
                   received, recvLog, closedByClient>>

RegDisconnect(ws) ==
    /\ active_connections' = disconnect(active_connections, ws).list
    /\ regOp' = [op |-> "disconnect", arg |-> ws, before |-> active_connections,
                 error |-> disconnect(active_connections, ws).error]
    /\ UNCHANGED <<VENDORS, transport, hstate, hexit, data, req, pass, passLog,
                   received, recvLog, closedByClient>>

RegNext ==
    \/ \E ws \in RegSockets : RegConnect(ws)
    \/ \E ws \in RegSockets : RegDisconnect(ws)

RegSpec == RegInit /\ [][RegNext]_vars

\* ------------------------------------------------------------------ claims
\* Connections whose connect() has returned and for which disconnect() has
\* not run.
Connected ==
    {c \in Conns :
        \/ hstate[c] \in {"Open", "Broadcasting"}
        \/ hstate[c] = "Closed" /\ hexit[c] \notin {"AcceptError", "WebSocketDisconnect"}}

\* C1: after any sequence of connects and disconnects the registry holds
\* exactly the connections that were added and not removed since, each once.
C1_RegistryExact ==
    /\ NoDup(active_connections)
    /\ SeqToSet(active_connections) = Connected

\* C1 witness: a disconnect has just removed one connection while another
\* stays registered.
C1_Witness ==
    /\ regOp.op = "disconnect"
    /\ regOp.error = "none"
    /\ Len(regOp.before) >= 2
    /\ Len(active_connections) >= 1

\* A broadcast pass that was running ends in this step.
PassEnds(p) ==
    /\ p \in 1 .. Len(passLog)
    /\ passLog[p].status = "running"
    /\ passLog'[p].status # "running"

\* C2 (as claimed): when the send to connection k fails during a broadcast,
\* every other registered connection with a working transport has been sent
\* the message by the time the broadcast ends.
C2_FailureIsolated ==
    [][\A p \in 1 .. Len(passLog) :
        PassEnds(p) /\ passLog'[p].failed # 0 =>
            \A c \in SeqToSet(passLog'[p].startReg) \cap SeqToSet(active_connections') :
                c # passLog'[p].failed /\ transport'[c] = "open" =>
                    c \in SeqToSet(passLog'[p].delivered)]_vars

\* C3 (as claimed): when the send to connection k fails during a broadcast,
\* k is not in the registry once that broadcast has ended.
C3_FailedRemoved ==
    [][\A p \in 1 .. Len(passLog) :
        PassEnds(p) /\ passLog'[p].failed # 0 =>
            passLog'[p].failed \notin SeqToSet(active_connections')]_vars

\* Handler c receives payload m in this step.
Receives(c, m) ==
    /\ Len(recvLog') = Len(recvLog) + 1
    /\ recvLog'[Len(recvLog')] = <<c, m>>

UnknownVendorUpdate(m) ==
    /\ HasKey(m, "type") /\ m.type = "location_update"
    /\ HasKey(m, "id") /\ m.id \notin DOMAIN VENDORS

\* C4 (as claimed): a location_update for an unknown vendor id is broadcast
\* to the registered connections all the same.
C4_UnknownStillBroadcast ==
    [][\A c \in Conns, m \in Inbound :
        Receives(c, m) /\ UnknownVendorUpdate(m) =>
            /\ Len(passLog') = Len(passLog) + 1
            /\ passLog'[Len(passLog')].msg = m]_vars

\* C4 (amended): a location_update for an unknown vendor id is never
\* broadcast: no pass carries it and no connection is sent it.
C4_UnknownNotBroadcast ==
    /\ \A p \in 1 .. Len(passLog) :
        passLog[p].msg.type = "location_update" => passLog[p].msg.id \in DOMAIN VENDORS
    /\ \A c \in Conns : \A i \in 1 .. Len(received[c]) :
        received[c][i][2].type = "location_update" =>
            received[c][i][2].id \in DOMAIN VENDORS

\* C4 witness: a registered handler has received a location_update for an
\* unknown vendor and gone back to its receive.
C4_Witness ==
    \E c \in Conns :
        /\ data[c] = LocUnknown
        /\ hstate[c] = "Open"
        /\ Len(active_connections) >= 2

\* C5 (as claimed): disconnect of a connection that is not registered leaves
\* the registry as it was and raises nothing.
C5_RemoveIdempotent ==
    regOp.op = "disconnect" /\ regOp.arg \notin SeqToSet(regOp.before) =>
        regOp.error = "none" /\ active_connections = regOp.before

\* C6 (as claimed): the connection of a handler that has ended is not in
\* the registry, whatever ended the handler.
C6_ClosedNotRegistered ==
    \A c \in Conns : hstate[c] = "Closed" => c \notin SeqToSet(active_connections)

\* The stored orders, as <<vendor, position>> pairs.
StoredOrders ==
    {vi \in (DOMAIN VENDORS) \X (1 .. MaxOps) : vi[2] <= Len(VENDORS[vi[1]].orders)}

\* C7 (as claimed): no two stored orders share an id.
C7_OrderIdsUnique ==
    \A a, b \in StoredOrders :
        a # b => VENDORS[a[1]].orders[a[2]].id # VENDORS[b[1]].orders[b[2]].id

KnownVendorUpdate(m) ==
    /\ HasKey(m, "type") /\ m.type = "location_update"
    /\ HasKey(m, "id") /\ m.id \in DOMAIN VENDORS
    /\ HasKey(m, "lat") /\ HasKey(m, "lng")

\* C8 (as claimed): a location_update for a known vendor sets that vendor's
\* lat and lng to the message's values, and by the end of its broadcast the
\* message has been sent, unmodified, to every connection that is registered
\* (the sender included) and has a working transport.
C8_KnownUpdateDelivered ==
    [][/\ \A c \in Conns, m \in Inbound :
            Receives(c, m) /\ KnownVendorUpdate(m) =>
                VENDORS'[m.id].lat = m.lat /\ VENDORS'[m.id].lng = m.lng
       /\ \A p \in 1 .. Len(passLog) :
            PassEnds(p) /\ passLog'[p].msg.type = "location_update" =>
                \A c \in SeqToSet(passLog'[p].startReg) \cap SeqToSet(active_connections') :
                    transport'[c] = "open" =>
                        Count(received'[c], <<p, passLog'[p].msg>>) >= 1]_vars

\* The broadcasts request r has made.
PassesOf(r) == {p \in 1 .. Len(passLog) : passLog[p].task = <<"http", r>>}

\* C9 (as claimed): an order request for a known vendor ends with status
\* "Order Placed" and the order's id, the order stored as Pending in that
\* vendor's list, and exactly one new_order broadcast carrying that vendor
\* id and that order.
C9_OrderPlaced ==
    \A r \in Reqs :
        req[r].state = "done" /\ req[r].vendor_id \in DOMAIN VENDORS =>
            /\ req[r].result = "Order Placed"
            /\ Cardinality(PassesOf(r)) = 1
            /\ \A p \in PassesOf(r) :
                /\ passLog[p].msg.type = "new_order"
                /\ passLog[p].msg.vendor_id = req[r].vendor_id
                /\ passLog[p].msg.order.id = req[r].order_id
                /\ passLog[p].msg.order.status = "Pending"
                /\ \E i \in 1 .. Len(VENDORS[req[r].vendor_id].orders) :
                    VENDORS[req[r].vendor_id].orders[i] = passLog[p].msg.order

\* C10: an order request for an unknown vendor id ends at once with
\* "Vendor not found", starts no broadcast, sends nothing, and leaves the
\* vendor table and the registry as they were.
C10_UnknownVendorOrder ==
    [][\A r \in Reqs :
        /\ req[r].state = "idle"
        /\ req'[r].state # "idle"
        /\ req'[r].vendor_id \notin DOMAIN VENDORS
        => /\ req'[r].state = "done"
           /\ req'[r].result = "Vendor not found"
           /\ UNCHANGED <<VENDORS, active_connections, pass, passLog, received>>]_vars

\* C10 witness: a request for an unknown vendor has been answered while
\* connections were registered.
C10_Witness ==
    \E r \in Reqs :
        /\ req[r].state = "done"
        /\ req[r].vendor_id \notin DOMAIN VENDORS
        /\ req[r].result = "Vendor not found"
        /\ Len(active_connections) >= 2

\* C11: a location_update for an unknown vendor id leaves the vendor table
\* as it was: no coordinates change, no order list changes, no row appears.
C11_UnknownLeavesVendors ==
    [][\A c \in Conns, m \in Inbound :
        Receives(c, m) /\ UnknownVendorUpdate(m) => VENDORS' = VENDORS]_vars

\* C11 witness: a handler has processed a location_update for an unknown
\* vendor after the vendor table had already changed once.
C11_Witness ==
    /\ Len(recvLog) >= 1
    /\ recvLog[Len(recvLog)][2] = LocUnknown
    /\ VENDORS # InitialVendors

\* C12 (as claimed): an order_update is broadcast unmodified, with no check
\* of the order or vendor it names, and by the end of the broadcast every
\* connection that is registered (the sender included) and has a working
\* transport has been sent it.
C12_OrderUpdateDelivered ==
    [][/\ \A c \in Conns, m \in Inbound :
            Receives(c, m) /\ HasKey(m, "type") /\ m.type = "order_update" =>
                /\ Len(passLog') = Len(passLog) + 1
                /\ passLog'[Len(passLog')].msg = m
                /\ VENDORS' = VENDORS
       /\ \A p \in 1 .. Len(passLog) :
            PassEnds(p) /\ passLog'[p].msg.type = "order_update" =>
                \A c \in SeqToSet(passLog'[p].startReg) \cap SeqToSet(active_connections') :
                    transport'[c] = "open" =>
                        Count(received'[c], <<p, passLog'[p].msg>>) >= 1]_vars

\* C13 (as claimed): a broadcast pass that runs to its end has sent the
\* message exactly once to every connection that was registered from its
\* start to its end, whatever connects and disconnects happened meanwhile.
C13_ExactlyOnce ==
    [][\A p \in 1 .. Len(passLog) :
        PassEnds(p) /\ passLog'[p].status = "completed" =>
            \A c \in SeqToSet(passLog'[p].startReg) \cap SeqToSet(active_connections') :
                Count(passLog'[p].delivered, c) = 1]_vars

\* Task t starts a send in this step.
SendStarts(t) == pass'[t].cur # 0 /\ pass'[t] # pass[t]

\* C14: every send is started to a connection that is in the registry at
\* that moment and has not been removed from it, and no disconnect finds
\* its connection already removed.
C14_NoSendAfterRemoval ==
    [][/\ \A t \in Tasks :
            SendStarts(t) =>
                /\ pass'[t].cur \in SeqToSet(active_connections')
                /\ hexit'[pass'[t].cur] # "WebSocketDisconnect"
       /\ \A c \in Conns : hexit'[c] # "ValueError"]_vars

\* C14 witness: a send is in flight in a pass that began after a connection
\* older than one of its targets had been removed.
C14_Witness ==
    \E t \in Tasks, c \in Conns :
        /\ pass[t].cur # 0
        /\ hexit[c] = "WebSocketDisconnect"
        /\ c \notin SeqToSet(passLog[pass[t].id].startReg)
        /\ \E b \in SeqToSet(passLog[pass[t].id].startReg) : c < b

\* C15 (as claimed): a pass sends only to connections that were registered
\* when it started.
C15_SnapshotAtStart ==
    \A p \in 1 .. Len(passLog) :
        SeqToSet(passLog[p].delivered) \subseteq SeqToSet(passLog[p].startReg)

\* Handler c ends in this step with KeyError leaving its receive loop.
RaisesKeyError(c) ==
    /\ hstate'[c] = "Closed"
    /\ hexit'[c] = "KeyError"

\* Payloads the protocol calls malformed or unknown.
Malformed(m) ==
    \/ ~HasKey(m, "type")
    \/ m.type \notin {"location_update", "order_update"}
    \/ m.type = "location_update"
        /\ (~HasKey(m, "id") \/ ~HasKey(m, "lat") \/ ~HasKey(m, "lng"))

\* C16 (as claimed): every malformed or unknown payload raises an error out
\* of the handler's receive loop.
C16_MalformedRaises ==
    [][\A c \in Conns, m \in Inbound :
        Receives(c, m) /\ Malformed(m) => RaisesKeyError(c)]_vars

\* Payloads for which the loop body reads a key that is not there.
ReadsMissingKey(m) ==
    \/ ~HasKey(m, "type")
    \/ m.type = "location_update"
        /\ \/ ~HasKey(m, "id")
           \/ m.id \in DOMAIN VENDORS /\ (~HasKey(m, "lat") \/ ~HasKey(m, "lng"))

\* C16 (amended): a payload without `type`, a location_update without `id`,
\* and a location_update for a known vendor without `lat` or `lng` raise
\* KeyError out of the handler's receive loop.
C16_MissingKeyRaises ==
    [][\A c \in Conns, m \in Inbound :
        Receives(c, m) /\ ReadsMissingKey(m) => RaisesKeyError(c)]_vars

\* C16 witness: handlers have ended with KeyError on a payload without
\* `type` and on a location_update for a known vendor without `lng`.
C16_Witness ==
    \E c, b \in Conns :
        /\ hexit[c] = "KeyError" /\ data[c] = NoType
        /\ hexit[b] = "KeyError" /\ data[b] = LocNoLng

\* The broadcasts handler c has made, in the order it made them.
HandlerPasses(c) == {p \in 1 .. Len(passLog) : passLog[p].task = <<"ws", c>>}

\* C17: a handler takes its messages one at a time: it is at its receive
\* only when no broadcast of its own is running, a broadcast of a handler
\* has ended before that handler's next one begins, and so a connection is
\* sent the messages of one handler in the order the handler received them.
C17_HandlerInOrder ==
    /\ \A c \in Conns :
        /\ hstate[c] = "Open" => pass[<<"ws", c>>] = NoPass
        /\ \A p, q \in HandlerPasses(c) : p < q => passLog[p].status # "running"
    /\ \A x \in Conns : \A i, j \in 1 .. Len(received[x]) :
        /\ i < j
        /\ passLog[received[x][i][1]].task = passLog[received[x][j][1]].task
        /\ passLog[received[x][i][1]].task[1] = "ws"
        => received[x][i][1] <= received[x][j][1]

\* C17 witness: one connection has been sent the messages of two
\* successive broadcasts of the same handler.
C17_Witness ==
    \E c, x \in Conns : \E i, j \in 1 .. Len(received[x]) :
        /\ i < j
        /\ received[x][i][1] \in HandlerPasses(c)
        /\ received[x][j][1] \in HandlerPasses(c)
        /\ received[x][i][1] # received[x][j][1]

\* C18: a connection leaves the registry only in a step in which its own
\* handler ends on a caught WebSocketDisconnect; that step removes nothing
\* else, and no step of a broadcast or of place_order removes anything.
C18_OnlyOwnHandlerRemoves ==
    [][\A c \in SeqToSet(active_connections) :
        c \notin SeqToSet(active_connections') =>
            /\ hstate[c] # "Closed"
            /\ hstate'[c] = "Closed"
            /\ hexit'[c] = "WebSocketDisconnect"
            /\ active_connections' =
                    RemoveAt(active_connections, IndexOf(active_connections, c))
            /\ req' = req]_vars

\* C18 witness: a handler has removed its connection, while the connection
\* whose send failed in a broadcast of place_order is still registered.
C18_Witness ==
    /\ regOp.op = "disconnect"
    /\ \E p \in 1 .. Len(passLog) :
        /\ passLog[p].task[1] = "http"
        /\ passLog[p].status = "aborted"
        /\ passLog[p].failed \in SeqToSet(active_connections)

\* C19: every stored order has status Pending, and every step keeps each
\* vendor's order list as a prefix of what it becomes: orders are appended,
\* never changed or removed.
C19_OrdersAppendOnly ==
    [][\A v \in DOMAIN VENDORS :
        /\ v \in DOMAIN VENDORS'
        /\ Len(VENDORS'[v].orders) >= Len(VENDORS[v].orders)
        /\ SubSeq(VENDORS'[v].orders, 1, Len(VENDORS[v].orders)) = VENDORS[v].orders
        /\ \A i \in 1 .. Len(VENDORS'[v].orders) :
            VENDORS'[v].orders[i].status = "Pending"]_vars

\* C19 witness: an order_update naming a stored order was broadcast after
\* that order's new_order, and the order is still stored as Pending.
C19_Witness ==
    \E p, q \in 1 .. Len(passLog) : \E v \in DOMAIN VENDORS :
        /\ p < q
        /\ passLog[p].msg.type = "new_order"
        /\ passLog[p].msg.order.id = OrderUpdate.order_id
        /\ passLog[q].msg = OrderUpdate
        /\ Len(VENDORS[v].orders) >= 1
        /\ VENDORS[v].orders[1] = passLog[p].msg.order

\* C20: a payload whose `type` is neither location_update nor order_update
\* changes nothing: no broadcast starts, nothing is sent, the vendor table
\* and the registry stay as they were, and the handler stays open at its
\* receive.
C20_OtherTypeNoOp ==
    [][\A c \in Conns, m \in Inbound :
        /\ Receives(c, m)
        /\ HasKey(m, "type")
        /\ m.type \notin {"location_update", "order_update"}
        => /\ UNCHANGED <<VENDORS, active_connections, pass, passLog, received,
                          hexit, transport>>
           /\ hstate'[c] = "Open"]_vars

\* C20 witness: a handler received a payload of another type and then went
\* on to receive its next message.
C20_Witness ==
    \E c \in Conns :
        /\ Len(recvLog) = 2
        /\ recvLog[1] = <<c, OtherType>>
        /\ recvLog[2][1] = c
        /\ Len(active_connections) >= 2

====
